---- MODULE Spec2Model ----
(***************************************************************************)
(* Model of the event subscription layer of mpv-rs                        *)
(* (src/wrapper/events/sync.rs): Mpv::observe_events, the blocking        *)
(* iterator EventIter::next, Drop for EventIter and the engine's wake-up  *)
(* callback, together with the part of libmpv they talk to (event queue,  *)
(* request_event flags, log level, property observations).                *)
(*                                                                         *)
(* Every consumer thread owns one slot of Subs.  A slot calls             *)
(* observe_events, then next() any number of times, then drops its        *)
(* EventIter; after a drop it may observe again.  The mutexes of          *)
(* ev_to_observe and ev_observed are modelled with their owner, and a     *)
(* step ends wherever the thread can block on one of them or on the       *)
(* condition variable.  The mutex of ev_to_observe_properties is only     *)
(* ever locked by a thread that holds the one of ev_to_observe (lines     *)
(* 98-99, 376-378), so it is never contended and has no owner variable.   *)
(***************************************************************************)
EXTENDS Integers, Sequences, FiniteSets, TLC

\* ---- bounds of the model ------------------------------------------------
NumSubs == 2
MaxObserve == 2
MaxEvents == 2
MaxQueue == 1

Subs == 1..NumSubs
NoOwner == 0

\* ---- events and templates (enum Event, lines 181-203) --------------------
PropNames == {"a", "b"}
LogLevels == {"info"}
PlainKinds == {"Idle"}
Kinds == PlainKinds \cup {"LogMessage", "PropertyChange"}

\* An Event value used as a template by observe_events: only the variant,
\* the property name and the log level are ever inspected.
Template(kind, name, level) == [kind |-> kind, name |-> name, level |-> level]

empty_logmessage(lvl) == Template("LogMessage", "", lvl)

empty_propertychange(property) == Template("PropertyChange", property, "")

Templates ==
    {Template(k, "", "") : k \in PlainKinds}
        \cup {empty_logmessage(l) : l \in LogLevels}
        \cup {empty_propertychange(n) : n \in PropNames}

\* The slices a caller passes to observe_events: one template of each kind,
\* two kinds at once, two properties at once, and the same template twice.
Requests ==
    {<<t>> : t \in Templates}
        \cup {<<Template("Idle", "", ""), empty_propertychange("a")>>,
              <<empty_propertychange("a"), empty_propertychange("b")>>,
              <<Template("Idle", "", ""), Template("Idle", "", "")>>,
              <<empty_propertychange("a"), empty_propertychange("a")>>}

\* Event::as_id: the event id is the variant, the payload is ignored.
as_id(ev) == ev.kind

\* Event::structural_eq: equality between variants, not values.
structural_eq(lhs, rhs) == lhs.kind = rhs.kind

\* Event::from_raw: the decoded event keeps the raw event's variant and, for
\* PropertyChange, the property name; uid identifies the raw event.
from_raw(raw) == [uid |-> raw.uid, kind |-> raw.kind, name |-> raw.name]

\* How a call ended; a panic of observe_events names the event of its message.
Outcome(result) == [result |-> result, twice |-> <<>>]

VARIABLES
    pc,                        \* position of each consumer thread
    first_iteration,           \* EventIter.first_iteration
    local_to_observe,          \* EventIter.local_to_observe
    ret_events,                \* next(): the batch being built
    last,                      \* next(): the `last` flag of the poll loop
    returned,                  \* batches next() returned to the live EventIter
    outcome,                   \* how the slot's last observe_events / drop ended
    ev_to_observe,             \* Mpv.ev_to_observe (all_to_observe)
    ev_to_observe_properties,  \* Mpv.ev_to_observe_properties: name -> id
    ev_observed,               \* Mpv.ev_observed (all_observed), the shared queue
    lock,                      \* owner of the mutexes of ev_to_observe, ev_observed
    enabled,                   \* engine: last mpv_request_event value per kind
    log_level,                 \* engine: last mpv_request_log_messages level
    observed_props,            \* engine: observed <<id, name>> pairs
    queue,                     \* engine: raw events not yet polled
    choked,                    \* engine: an event was dropped, overflow pending
    wake_pending,              \* engine: wake-up callback not yet run
    log,                       \* history: per raw event its kind, name, the
                               \* subscriptions it is owed to, and its route
    observe_calls,             \* number of observe_events calls so far
    subscriptions,             \* number of EventIters observe_events returned
    polls,                     \* history: what the polls of the drain pass the
                               \* slot is in, or has just left, returned
    handed                     \* uid -> how many times next() returned the event

vars == <<pc, first_iteration, local_to_observe, ret_events, last, returned,
          outcome, ev_to_observe, ev_to_observe_properties, ev_observed, lock,
          enabled, log_level, observed_props, queue, choked, wake_pending,
          log, observe_calls, subscriptions, polls, handed>>

subVars == <<pc, first_iteration, local_to_observe, ret_events, last,
             returned, outcome>>
sharedVars == <<ev_to_observe, ev_to_observe_properties, ev_observed>>
engineVars == <<enabled, log_level, observed_props, queue, choked,
                wake_pending, log>>

\* Mpv::new: empty registries, all events disabled, nothing observed.
Init ==
    /\ pc = [s \in Subs |-> "idle"]
    /\ first_iteration = [s \in Subs |-> TRUE]
    /\ local_to_observe = [s \in Subs |-> <<>>]
    /\ ret_events = [s \in Subs |-> <<>>]
    /\ last = [s \in Subs |-> FALSE]
    /\ returned = [s \in Subs |-> <<>>]
    /\ outcome = [s \in Subs |-> Outcome("none")]
    /\ ev_to_observe = <<>>
    /\ ev_to_observe_properties = [n \in {} |-> 0]
    /\ ev_observed = <<>>
    /\ lock = [m \in {"to_observe", "observed"} |-> NoOwner]
    /\ enabled = [k \in Kinds |-> FALSE]
    /\ log_level = "no"
    /\ observed_props = {}
    /\ queue = <<>>
    /\ choked = FALSE
    /\ wake_pending = FALSE
    /\ log = <<>>
    /\ observe_calls = 0
    /\ subscriptions = 0
    /\ polls = [s \in Subs |-> <<>>]
    /\ handed = [u \in 1..MaxEvents |-> 0]

\* ---- small helpers ---------------------------------------------------------
SeqToSet(seq) == {seq[i] : i \in DOMAIN seq}

\* HashMap::remove
MapRemove(map, key) == [k \in DOMAIN map \ {key} |-> map[k]]

\* HashMap::insert
MapInsert(map, key, val) ==
    [k \in DOMAIN map \cup {key} |-> IF k = key THEN val ELSE map[k]]

\* mpv_unobserve_property: drops every observation registered with this id.
unobserve_property(oprops, id) == {p \in oprops : p[1] # id}

\* Condvar::notify_all on ev_iter_notification.1
NotifyAll(pcs) == [s \in Subs |-> IF pcs[s] = "nx_waiting" THEN "nx_relock" ELSE pcs[s]]

\* A lock that excludes nobody.
Acquire_none(locks, m, s) == locks

\* Mutex::lock, and the release of every guard the thread holds
Acquire(locks, m, s) == [locks EXCEPT ![m] = s]
ReleaseAll(locks, s) == [m \in DOMAIN locks |-> IF locks[m] = s THEN NoOwner ELSE locks[m]]

\* ---- the engine (libmpv behind mpv_sys) -------------------------------------
\* What the engine can currently emit: a kind that is enabled and, for a
\* property change, a property that is observed.
Emittable ==
    {[kind |-> k, name |-> ""] : k \in {k \in Kinds \ {"PropertyChange"} : enabled[k]}}
        \cup {[kind |-> "PropertyChange", name |-> p[2]] :
                 p \in {p \in observed_props : enabled["PropertyChange"]}}

\* The subscription of slot s exists and its owner has not started to drop it.
Live(s) == pc[s] \notin {"idle", "panicked", "dr_observed"}

\* The live subscriptions that hold a template for the event (same kind and,
\* for PropertyChange, same property name).
Owners(e) ==
    {s \in Subs : /\ Live(s)
                  /\ \E i \in DOMAIN local_to_observe[s] :
                        /\ local_to_observe[s][i].kind = e.kind
                        /\ e.kind = "PropertyChange" => local_to_observe[s][i].name = e.name}

\* The number of raw events the engine has emitted so far.
Emitted == Len(log)

\* The engine queues a raw event and schedules its wake-up callback.
EngineEmit ==
    /\ Emitted < MaxEvents
    /\ Len(queue) < MaxQueue
    /\ \E e \in Emittable :
          /\ queue' = Append(queue, [uid |-> Emitted + 1, kind |-> e.kind, name |-> e.name])
          /\ log' = Append(log, [kind |-> e.kind, name |-> e.name,
                                 owed |-> Owners(e), route |-> "queued"])
    /\ wake_pending' = TRUE
    /\ UNCHANGED <<subVars, sharedVars, lock, enabled, log_level, observed_props,
                   choked, observe_calls, subscriptions, polls, handed>>

\* The engine's queue is full: the event is dropped and an overflow is owed
\* to the next poll that finds the queue empty.
EngineOverflow ==
    /\ Emitted < MaxEvents
    /\ Len(queue) >= MaxQueue
    /\ Emittable # {}
    /\ log' = Append(log, [kind |-> "", name |-> "", owed |-> {}, route |-> "overflow"])
    /\ choked' = TRUE
    /\ UNCHANGED <<subVars, sharedVars, lock, enabled, log_level, observed_props,
                   queue, wake_pending, observe_calls, subscriptions,
                   polls, handed>>

\* event_callback: notify_one on the condition variable, from an engine thread.
event_callback ==
    /\ wake_pending
    /\ wake_pending' = FALSE
    /\ IF \E s \in Subs : pc[s] = "nx_waiting"
          THEN \E s \in Subs :
                  /\ pc[s] = "nx_waiting"
                  /\ pc' = [pc EXCEPT ![s] = "nx_relock"]
          ELSE pc' = pc
    /\ UNCHANGED <<first_iteration, local_to_observe, ret_events, last, returned,
                   outcome, sharedVars, lock, enabled, log_level, observed_props,
                   queue, choked, log, observe_calls, subscriptions, polls,
                   handed>>

\* mpv_wait_event with a zero timeout: the next raw event, or QueueOverflow
\* once the queue has run empty after a dropped event, or None.
mpv_wait_event ==
    IF queue # <<>> THEN queue[1]
    ELSE IF choked THEN [uid |-> 0, kind |-> "QueueOverflow", name |-> ""]
    ELSE [uid |-> 0, kind |-> "None", name |-> ""]

\* What a poll returned, as the 'events loop tells it apart (lines 442-452):
\* QueueOverflow, None, or an event.
PollResult(event) ==
    IF event.kind \in {"QueueOverflow", "None"} THEN event.kind ELSE "event"

\* ---- Mpv::observe_events (lines 97-173) -----------------------------------
\* Lines 105-137: the loop over the requested events.  st carries the engine
\* state and the vectors evs and props; st.calls counts the engine calls made
\* so far, and the engine rejects call number failAt (0: none).
observe_events_enable(evts, observe, properties, failAt, st0) ==
    LET RECURSIVE Loop(_, _)
        Loop(i, st) ==
            IF i > Len(evts) THEN st
            ELSE LET elem == evts[i] IN
                IF elem.kind = "PropertyChange"
                THEN IF elem.name \in DOMAIN properties
                     THEN [st EXCEPT !.outcome = "panic", !.twice = <<elem>>]
                     ELSE IF st.calls + 1 = failAt
                     THEN [st EXCEPT !.outcome = "err"]
                     ELSE Loop(i + 1,
                              [st EXCEPT !.calls = @ + 1,
                                         !.enabled = [@ EXCEPT ![as_id(elem)] = TRUE],
                                         !.props = Append(@, elem.name),
                                         !.evs = Append(@, elem)])
                ELSE IF \E j \in DOMAIN observe : as_id(elem) = as_id(observe[j])
                     THEN [st EXCEPT !.outcome = "panic", !.twice = <<elem>>]
                     ELSE LET logged ==
                                  IF elem.kind = "LogMessage"
                                  THEN IF st.calls + 1 = failAt
                                       THEN [st EXCEPT !.outcome = "err"]
                                       ELSE [st EXCEPT !.calls = @ + 1,
                                                       !.log_level = elem.level]
                                  ELSE st
                          IN IF logged.outcome = "err" THEN logged
                             ELSE IF logged.calls + 1 = failAt
                             THEN [logged EXCEPT !.outcome = "err"]
                             ELSE Loop(i + 1,
                                      [logged EXCEPT
                                          !.calls = @ + 1,
                                          !.enabled = [@ EXCEPT ![as_id(elem)] = TRUE],
                                          !.evs = Append(@, elem)])
    IN Loop(1, st0)

\* Lines 139-159: observe every requested property under the ids start_id,
\* start_id + 1, ...; on a rejection unobserve the ids inserted so far.
observe_events_properties(properties, failAt, st0) ==
    LET start_id == Cardinality(DOMAIN properties)
        RECURSIVE Unobserve(_, _)
        Unobserve(ins, oprops) ==
            IF ins = <<>> THEN oprops
            ELSE Unobserve(Tail(ins), unobserve_property(oprops, Head(ins)[2]))
        RECURSIVE Loop(_, _)
        Loop(i, st) ==
            IF i > Len(st.props) THEN st
            ELSE IF st.calls + 1 = failAt
            THEN [st EXCEPT !.outcome = "err",
                            !.oprops = Unobserve(st.props_ins, @)]
            ELSE Loop(i + 1,
                     [st EXCEPT
                         !.calls = @ + 1,
                         !.oprops = @ \cup {<<start_id + (i - 1), st.props[i]>>},
                         !.props_ins = Append(@, <<st.props[i], start_id + (i - 1)>>)])
    IN Loop(1, st0)

\* HashMap::extend with (name, id) pairs: a later pair replaces an earlier one.
RECURSIVE MapExtend(_, _)
MapExtend(map, pairs) ==
    IF pairs = <<>> THEN map
    ELSE MapExtend(MapInsert(map, Head(pairs)[1], Head(pairs)[2]), Tail(pairs))

\* The whole body of observe_events, given which engine call is rejected.
observe_events(evts, observe, properties, failAt) ==
    LET st0 == [outcome |-> "ok", twice |-> <<>>, calls |-> 0, enabled |-> enabled,
                log_level |-> log_level, oprops |-> observed_props,
                evs |-> <<>>, props |-> <<>>, props_ins |-> <<>>]
        st1 == observe_events_enable(evts, observe, properties, failAt, st0)
    IN IF st1.outcome # "ok" THEN st1
       ELSE observe_events_properties(properties, failAt, st1)

\* The number of engine calls observe_events can make for a request.
MaxEngineCalls(evts) ==
    Len(evts) + Cardinality({i \in DOMAIN evts : evts[i].kind \notin PlainKinds})

\* Lines 97-173: observe_events, from the lock of ev_to_observe (which it may
\* have to wait for) to its return, error or panic.
ObserveEvents(s) ==
    /\ pc[s] = "idle"
    /\ observe_calls < MaxObserve
    /\ lock["to_observe"] = NoOwner
    /\ \E req \in Requests : \E failAt \in 0..MaxEngineCalls(req) :
          LET r == observe_events(req, ev_to_observe,
                                  ev_to_observe_properties, failAt)
          IN /\ r.outcome = "err" \/ failAt = 0
             /\ enabled' = r.enabled
             /\ log_level' = r.log_level
             /\ observed_props' = r.oprops
             /\ outcome' = [outcome EXCEPT ![s] =
                               [result |-> r.outcome, twice |-> r.twice]]
             /\ IF r.outcome = "ok"
                   THEN /\ ev_to_observe' = ev_to_observe \o r.evs
                        /\ ev_to_observe_properties' =
                               MapExtend(ev_to_observe_properties, r.props_ins)
                        /\ local_to_observe' = [local_to_observe EXCEPT ![s] = r.evs]
                        /\ first_iteration' = [first_iteration EXCEPT ![s] = TRUE]
                        /\ subscriptions' = subscriptions + 1
                        /\ pc' = [pc EXCEPT ![s] = "ready"]
                   ELSE /\ UNCHANGED <<ev_to_observe, ev_to_observe_properties,
                                       local_to_observe, first_iteration,
                                       subscriptions>>
                        /\ pc' = [pc EXCEPT ![s] =
                                     IF r.outcome = "panic" THEN "panicked" ELSE "idle"]
    /\ observe_calls' = observe_calls + 1
    /\ UNCHANGED <<ret_events, last, returned, ev_observed, lock, queue, choked,
                   wake_pending, log, polls, handed>>

\* ---- Drop for EventIter (lines 374-419) --------------------------------------
\* The closure compare_ev_unobserve (lines 381-411).  st carries the
\* properties map and the engine state the closure changes; st.panic is set
\* when the unwrap of line 389 finds no id for the name.
compare_ev_unobserve(outer_ev, inner_ev, st) ==
    IF outer_ev.kind = "PropertyChange"
    THEN IF inner_ev.kind = "PropertyChange"
         THEN IF outer_ev.name = inner_ev.name
              THEN IF outer_ev.name \in DOMAIN st.properties
                   THEN [match |-> TRUE,
                         st |-> [st EXCEPT
                                   !.oprops = unobserve_property(
                                                  @, st.properties[outer_ev.name]),
                                   !.properties = MapRemove(@, outer_ev.name)]]
                   ELSE [match |-> FALSE, st |-> [st EXCEPT !.panic = TRUE]]
              ELSE [match |-> FALSE, st |-> st]
         \* lines 394-405 need an outer PropertyChange whose id is LogMessage
         ELSE [match |-> FALSE, st |-> st]
    ELSE IF structural_eq(outer_ev, inner_ev)
         THEN [match |-> TRUE,
               st |-> [st EXCEPT !.enabled = [@ EXCEPT ![as_id(inner_ev)] = FALSE]]]
         ELSE [match |-> FALSE, st |-> st]

\* Vec::retain(|inner_ev| !compare_ev_unobserve(outer_ev, inner_ev)).  When the
\* closure panics the element it was called on and the ones after it stay.
retain_unobserve(vec, outer_ev, st0) ==
    LET RECURSIVE Loop(_, _, _)
        Loop(i, kept, st) ==
            IF i > Len(vec) THEN [vec |-> kept, st |-> st]
            ELSE LET r == compare_ev_unobserve(outer_ev, vec[i], st) IN
                 IF r.st.panic
                 THEN [vec |-> kept \o SubSeq(vec, i, Len(vec)), st |-> r.st]
                 ELSE Loop(i + 1, IF r.match THEN kept ELSE Append(kept, vec[i]), r.st)
    IN Loop(1, <<>>, st0)

\* Lines 414-417: for every local template, purge the registry and then the
\* shared queue.
drop_purge(local, d0) ==
    LET RECURSIVE Loop(_, _)
        Loop(i, d) ==
            IF i > Len(local) \/ d.st.panic THEN d
            ELSE LET a == retain_unobserve(d.to_observe, local[i], d.st) IN
                 IF a.st.panic
                 THEN [d EXCEPT !.to_observe = a.vec, !.st = a.st]
                 ELSE LET b == retain_unobserve(d.observed, local[i], a.st) IN
                      Loop(i + 1, [to_observe |-> a.vec, observed |-> b.vec,
                                   st |-> b.st])
    IN Loop(1, d0)

\* Line 376: drop starts by locking all_to_observe.  From here on the owner
\* pulls no more, so no event is owed to this subscription any longer.
DropLockToObserve(s) ==
    /\ pc[s] = "ready"
    /\ lock["to_observe"] = NoOwner
    /\ lock' = Acquire(lock, "to_observe", s)
    /\ pc' = [pc EXCEPT ![s] = "dr_observed"]
    /\ log' = [u \in DOMAIN log |-> [log[u] EXCEPT !.owed = @ \ {s}]]
    /\ UNCHANGED <<first_iteration, local_to_observe, ret_events, last, returned,
                   outcome, sharedVars, enabled, log_level, observed_props, queue,
                   choked, wake_pending, observe_calls, subscriptions, polls,
                   handed>>

\* Lines 377-418: lock all_observed (and all_to_observe_properties), purge,
\* release the locks.
DropPurge(s) ==
    /\ pc[s] = "dr_observed"
    /\ lock["observed"] = NoOwner
    /\ LET d == drop_purge(local_to_observe[s],
                           [to_observe |-> ev_to_observe,
                            observed |-> ev_observed,
                            st |-> [properties |-> ev_to_observe_properties,
                                    oprops |-> observed_props,
                                    enabled |-> enabled,
                                    panic |-> FALSE]])
       IN /\ ev_to_observe' = d.to_observe
          /\ ev_observed' = d.observed
          /\ ev_to_observe_properties' = d.st.properties
          /\ observed_props' = d.st.oprops
          /\ enabled' = d.st.enabled
          /\ outcome' = [outcome EXCEPT ![s] =
                            Outcome(IF d.st.panic THEN "drop_panic" ELSE "dropped")]
          /\ pc' = [pc EXCEPT ![s] = IF d.st.panic THEN "panicked" ELSE "idle"]
    /\ local_to_observe' = [local_to_observe EXCEPT ![s] = <<>>]
    /\ returned' = [returned EXCEPT ![s] = <<>>]
    /\ polls' = [polls EXCEPT ![s] = <<>>]
    /\ lock' = ReleaseAll(lock, s)
    /\ UNCHANGED <<first_iteration, ret_events, last, log_level, queue, choked,
                   wake_pending, log, observe_calls, subscriptions, handed>>

\* ---- EventIter::next (lines 424-506) -----------------------------------------
\* Line 428: nothing is queued for anybody and this is not the first call.
must_wait(s) == ev_observed = <<>> /\ ~first_iteration[s]

\* Line 435: poll the engine rather than claim from the shared queue.
must_drain(s) == ev_observed = <<>> \/ first_iteration[s]

\* A drain that leaves every observed event in the shared queue.
classify_shared(ev_id, local, all_to_observe) ==
    IF \E i \in DOMAIN all_to_observe : ev_id = as_id(all_to_observe[i])
    THEN "shared"
    ELSE "discard"

\* A drain that keeps for its caller every event somebody observes.
classify_any(ev_id, local, all_to_observe) ==
    IF \E i \in DOMAIN (local \o all_to_observe) :
          ev_id = as_id((local \o all_to_observe)[i])
    THEN "direct"
    ELSE "discard"

\* Lines 454-465: where a polled event goes.  Both loops compare event ids only.
classify(ev_id, local, all_to_observe) ==
    IF \E i \in DOMAIN local : ev_id = as_id(local[i]) THEN "direct"
    ELSE IF \E i \in DOMAIN all_to_observe : ev_id = as_id(all_to_observe[i])
    THEN "shared"
    ELSE "discard"

\* A comparison that forgets the PropertyChange arm of lines 474-481.
compare_ev_plain(outer_ev, inner_ev) ==
    outer_ev.kind # "PropertyChange" /\ structural_eq(outer_ev, inner_ev)

\* The closure compare_ev (lines 473-487): does a queued event belong to the
\* template outer_ev.
compare_ev(outer_ev, inner_ev) ==
    IF outer_ev.kind = "PropertyChange"
    THEN inner_ev.kind = "PropertyChange" /\ outer_ev.name = inner_ev.name
    ELSE structural_eq(outer_ev, inner_ev)

\* The elements of vec, in order, on which compare_ev(outer_ev, _) is want:
\* what Vec::retain removes (want) and what it keeps (~want) in line 490.
RECURSIVE Matching(_, _, _)
Matching(vec, outer_ev, want) ==
    IF vec = <<>> THEN <<>>
    ELSE IF compare_ev(outer_ev, Head(vec)) = want
         THEN <<Head(vec)>> \o Matching(Tail(vec), outer_ev, want)
         ELSE Matching(Tail(vec), outer_ev, want)

\* A claim that copies the matching events and leaves them in the shared queue.
claim_keep(local, observed) ==
    LET RECURSIVE Loop(_, _)
        Loop(i, ret) ==
            IF i > Len(local) THEN [ret |-> ret, observed |-> observed]
            ELSE Loop(i + 1, ret \o Matching(observed, local[i], TRUE))
    IN Loop(1, <<>>)

\* Lines 489-491: for every local template in turn, move the queued events
\* that belong to it from the shared queue to the batch.
claim(local, observed) ==
    LET RECURSIVE Loop(_, _, _)
        Loop(i, ret, obs) ==
            IF i > Len(local) THEN [ret |-> ret, observed |-> obs]
            ELSE Loop(i + 1, ret \o Matching(obs, local[i], TRUE),
                      Matching(obs, local[i], FALSE))
    IN Loop(1, <<>>, observed)

\* A next() that returns after every round of its loop.
returns_always(ret) == TRUE

\* Line 501: next() returns only a batch that holds something.
returns_batch(ret) == ret # <<>>

\* The end of one round of the loop of next(), for slot s with the batch ret
\* and the shared queue obs: lines 467-470 (493-496): notify_all when the
\* shared queue holds something; lines 499-505: unlock, clear first_iteration,
\* hand the batch out or go round the loop again.
FinishIteration(s, ret, obs) ==
    LET pcs == IF obs # <<>> THEN NotifyAll(pc) ELSE pc IN
    /\ first_iteration' = [first_iteration EXCEPT ![s] = FALSE]
    /\ lock' = ReleaseAll(lock, s)
    /\ ret_events' = [ret_events EXCEPT ![s] = <<>>]
    /\ last' = [last EXCEPT ![s] = FALSE]
    /\ IF returns_batch(ret)
          THEN /\ returned' = [returned EXCEPT ![s] = Append(@, ret)]
               /\ handed' = [u \in DOMAIN handed |->
                               handed[u] + Cardinality({i \in DOMAIN ret : ret[i].uid = u})]
               /\ pc' = [pcs EXCEPT ![s] = "ready"]
          ELSE /\ UNCHANGED <<returned, handed>>
               /\ pc' = [pcs EXCEPT ![s] = "nx_observed"]

\* Lines 427-429: lock all_observed; with nothing queued and not on the first
\* call, unlock it again and go to wait.
NextLockObserved(s) ==
    /\ pc[s] \in {"ready", "nx_observed"}
    /\ lock["observed"] = NoOwner
    /\ IF must_wait(s)
          THEN /\ pc' = [pc EXCEPT ![s] = "nx_wait"]
               /\ lock' = lock
          ELSE /\ pc' = [pc EXCEPT ![s] = "nx_branch"]
               /\ lock' = Acquire(lock, "observed", s)
    /\ UNCHANGED <<first_iteration, local_to_observe, ret_events, last, returned,
                   outcome, sharedVars, engineVars, observe_calls,
                   subscriptions, handed>>
    /\ polls' = [polls EXCEPT ![s] = <<>>]

\* Line 430: start waiting on the condition variable.
NextWait(s) ==
    /\ pc[s] = "nx_wait"
    /\ pc' = [pc EXCEPT ![s] = "nx_waiting"]
    /\ UNCHANGED <<first_iteration, local_to_observe, ret_events, last, returned,
                   outcome, sharedVars, lock, engineVars, observe_calls,
                   subscriptions, polls, handed>>

\* Line 431: notified, lock all_observed again.
NextRelockObserved(s) ==
    /\ pc[s] = "nx_relock"
    /\ lock["observed"] = NoOwner
    /\ lock' = Acquire(lock, "observed", s)
    /\ pc' = [pc EXCEPT ![s] = "nx_branch"]
    /\ UNCHANGED <<first_iteration, local_to_observe, ret_events, last, returned,
                   outcome, sharedVars, engineVars, observe_calls,
                   subscriptions, polls, handed>>

\* Lines 434-437: take the drain branch and lock all_to_observe.
NextLockToObserve(s) ==
    /\ pc[s] = "nx_branch"
    /\ must_drain(s)
    /\ lock["to_observe"] = NoOwner
    /\ lock' = Acquire(lock, "to_observe", s)
    /\ pc' = [pc EXCEPT ![s] = "nx_poll"]
    /\ ret_events' = [ret_events EXCEPT ![s] = <<>>]
    /\ last' = [last EXCEPT ![s] = FALSE]
    /\ polls' = [polls EXCEPT ![s] = <<>>]
    /\ UNCHANGED <<first_iteration, local_to_observe, returned, outcome,
                   sharedVars, engineVars, observe_calls, subscriptions, handed>>

\* A poll loop that takes QueueOverflow for one more event to classify.
stops_pass_on_none(ev_id, seen_none) == ev_id = "None" /\ seen_none

\* Lines 442-452: the poll that ends the pass: QueueOverflow, or None when
\* the flag `last` is set.
stops_pass(ev_id, seen_none) ==
    ev_id = "QueueOverflow" \/ (ev_id = "None" /\ seen_none)

\* Lines 438-470, 499-505: one round of the 'events loop, that is one poll.
\* The round that leaves the loop also finishes this round of next().
NextPoll(s) ==
    /\ pc[s] = "nx_poll"
    /\ LET event == mpv_wait_event
           ev_id == event.kind
       IN /\ polls' = [polls EXCEPT ![s] = Append(@, PollResult(event))]
          /\ queue' = IF queue = <<>> THEN queue ELSE Tail(queue)
          /\ choked' = IF ev_id = "QueueOverflow" THEN FALSE ELSE choked
          /\ IF stops_pass(ev_id, last[s])
             THEN /\ FinishIteration(s, ret_events[s], ev_observed)
                  /\ UNCHANGED <<ev_observed, log>>
             ELSE IF ev_id = "None"
             THEN /\ last' = [last EXCEPT ![s] = TRUE]
                  /\ UNCHANGED <<pc, first_iteration, lock, ret_events, returned,
                                 handed, ev_observed, log>>
             ELSE LET where == classify(ev_id, local_to_observe[s], ev_to_observe)
                  IN /\ ret_events' =
                            IF where = "direct"
                            THEN [ret_events EXCEPT ![s] = Append(@, from_raw(event))]
                            ELSE ret_events
                     /\ ev_observed' =
                            IF where = "shared"
                            THEN Append(ev_observed, from_raw(event))
                            ELSE ev_observed
                     /\ log' = [u \in DOMAIN log |->
                                  IF u = event.uid
                                  THEN [log[u] EXCEPT !.route = where]
                                  ELSE log[u]]
                     /\ UNCHANGED <<pc, first_iteration, lock, last, returned,
                                    handed>>
    /\ UNCHANGED <<local_to_observe, outcome, ev_to_observe,
                   ev_to_observe_properties, enabled, log_level, observed_props,
                   wake_pending, observe_calls, subscriptions>>

\* Lines 471-505: the claim branch: take this EventIter's events out of the
\* shared queue, notify_all when something is left, return the batch or loop.
NextClaim(s) ==
    /\ pc[s] = "nx_branch"
    /\ ~must_drain(s)
    /\ LET c == claim(local_to_observe[s], ev_observed)
       IN /\ ev_observed' = c.observed
          /\ FinishIteration(s, c.ret, c.observed)
    /\ UNCHANGED <<local_to_observe, outcome, ev_to_observe,
                   ev_to_observe_properties, engineVars, observe_calls,
                   subscriptions, polls>>

\* ---- the system -----------------------------------------------------------------
Next ==
    \/ EngineEmit
    \/ EngineOverflow
    \/ event_callback
    \/ \E s \in Subs : ObserveEvents(s)
    \/ \E s \in Subs : DropLockToObserve(s)
    \/ \E s \in Subs : DropPurge(s)
    \/ \E s \in Subs : NextLockObserved(s)
    \/ \E s \in Subs : NextWait(s)
    \/ \E s \in Subs : NextRelockObserved(s)
    \/ \E s \in Subs : NextLockToObserve(s)
    \/ \E s \in Subs : NextPoll(s)
    \/ \E s \in Subs : NextClaim(s)

Spec == Init /\ [][Next]_vars

\* ---- vocabulary of the properties -------------------------------------------------
\* The events of all the batches next() has returned to the EventIter of s.
ReturnedTo(s) == UNION {SeqToSet(returned[s][b]) : b \in DOMAIN returned[s]}

\* How often the raw event u occurs in a sequence of events.
CountIn(vec, u) == Cardinality({i \in DOMAIN vec : vec[i].uid = u})

\* Where the raw event u still is: the engine's queue, the shared queue or a
\* batch under construction.
InFlight(u) ==
    CountIn(queue, u) + CountIn(ev_observed, u)
        + Cardinality({s \in Subs : CountIn(ret_events[s], u) > 0})

\* Two templates ask for the same thing: same kind and, for PropertyChange,
\* the same property name.
SameTemplate(t1, t2) ==
    /\ t1.kind = t2.kind
    /\ t1.kind = "PropertyChange" => t1.name = t2.name

\* The templates of different subscriptions are pairwise disjoint.
TemplatesDisjoint ==
    \A s1, s2 \in Subs :
        s1 # s2 =>
            \A i \in DOMAIN local_to_observe[s1], j \in DOMAIN local_to_observe[s2] :
                ~SameTemplate(local_to_observe[s1][i], local_to_observe[s2][j])

\* ---- C1 --------------------------------------------------------------------------
\* C1 (no loss): an event the engine emitted without overflow, and that
\* matches (kind and, for PropertyChange, property name) a template of a
\* subscription that was live then and is still pulling, is eventually returned
\* to that subscription.  Such an event must therefore always be either
\* returned to the subscription already or still on its way to it (in the
\* engine's queue, in the shared queue or in the batch the subscription is
\* building): from any other state no step can ever return it.
C1_NoLoss ==
    \A u \in DOMAIN log : \A s \in log[u].owed :
        \/ \E e \in ReturnedTo(s) : e.uid = u
        \/ CountIn(queue, u) > 0
        \/ CountIn(ev_observed, u) > 0
        \/ CountIn(ret_events[s], u) > 0

\* ---- C2 --------------------------------------------------------------------------
\* C2 (no duplication): every raw event is returned by next() at most once
\* over all subscriptions and batches, and an event that has been handed out
\* is no longer in the shared queue (nor anywhere else on its way).
C2_NoDuplication ==
    \A u \in DOMAIN log :
        /\ handed[u] <= 1
        /\ InFlight(u) <= 1
        /\ handed[u] = 1 => InFlight(u) = 0

\* An event went through the shared queue and was then handed out by a claim.
C2_Witness ==
    \E u \in DOMAIN log : log[u].route = "shared" /\ handed[u] = 1

\* ---- C3 --------------------------------------------------------------------------
\* C3: with pairwise disjoint templates, every event of every batch returned
\* to a subscription has the kind of one of that subscription's templates.
C3_OnlyOwnKinds ==
    TemplatesDisjoint =>
        \A s \in Subs : \A e \in ReturnedTo(s) :
            \E i \in DOMAIN local_to_observe[s] : as_id(local_to_observe[s][i]) = e.kind

\* Two subscriptions with disjoint templates, one holding an event it was
\* delivered directly by its drain, the other one it claimed from the shared
\* queue.
C3_Witness ==
    /\ TemplatesDisjoint
    /\ \E s1, s2 \in Subs :
          /\ s1 # s2
          /\ \E e \in ReturnedTo(s1) : log[e.uid].route = "direct"
          /\ \E e \in ReturnedTo(s2) : log[e.uid].route = "shared"

\* ---- C4 --------------------------------------------------------------------------
\* A template for slot s's subscription names the property of the event.
ObservesProperty(s, name) ==
    \E i \in DOMAIN local_to_observe[s] :
        SameTemplate(local_to_observe[s][i], empty_propertychange(name))

\* Slot s asked to observe the property and its observe_events panicked on it.
RefusedProperty(s, name) ==
    /\ outcome[s].result = "panic"
    /\ outcome[s].twice = <<empty_propertychange(name)>>

AtClaim(s) == pc[s] = "nx_branch" /\ ~must_drain(s)

C5_NeverEmptyBatch ==
    \A s \in Subs : \A b \in DOMAIN returned[s] : returned[s][b] # <<>>

\* A subscription that has been returned a batch and, in a later call, has
\* gone through a round of the loop that produced nothing and did not return.
C5_Witness ==
    \E s \in Subs : returned[s] # <<>> /\ pc[s] = "nx_observed"

\* ---- C6 --------------------------------------------------------------------------
\* No two entries of the vector are structurally equal templates.
NoRepeatedTemplate(vec) ==
    \A i, j \in DOMAIN vec : i # j => ~SameTemplate(vec[i], vec[j])

\* C6: observe_events never succeeds on a request that repeats a template, so
\* neither the registry nor the template list of a subscription holds two
\* structurally equal templates (same kind and, for PropertyChange, same
\* property name).
C6_NoTemplateTwice ==
    /\ NoRepeatedTemplate(ev_to_observe)
    /\ \A s \in Subs : NoRepeatedTemplate(local_to_observe[s])

\* ---- C7 --------------------------------------------------------------------------
\* Some registered template has this kind.
KindHeld(registry, kind) == \E i \in DOMAIN registry : registry[i].kind = kind

\* C7: when a drop completes, the templates of the dropped subscription are
\* gone from the registry and every kind it was the last holder of
\* (PropertyChange included) is disabled in the engine.
C7_DropDisablesLastHeldKinds ==
    [][ \A s \in Subs :
          (pc[s] = "dr_observed" /\ pc'[s] = "idle") =>
              \A i \in DOMAIN local_to_observe[s] :
                  /\ \A j \in DOMAIN ev_to_observe' :
                        ~SameTemplate(local_to_observe[s][i], ev_to_observe'[j])
                  /\ ~KindHeld(ev_to_observe', local_to_observe[s][i].kind) =>
                        ~enabled'[local_to_observe[s][i].kind]
      ]_vars

\* ---- C8 --------------------------------------------------------------------------
\* Slot s has stopped at a lock that another thread holds.
WaitsFor(s, m) ==
    /\ lock[m] \notin {NoOwner, s}
    /\ \/ m = "to_observe" /\ pc[s] = "nx_branch" /\ must_drain(s)
       \/ m = "observed" /\ pc[s] \in {"dr_observed", "nx_observed", "nx_relock"}

\* C8: no two threads ever each hold a lock the other is waiting for, so a
\* drop is never blocked for good.
C8_NoLockCycle ==
    ~ \E s1, s2 \in Subs : \E m1, m2 \in DOMAIN lock :
          /\ s1 # s2
          /\ lock[m1] = s1 /\ WaitsFor(s2, m1)
          /\ lock[m2] = s2 /\ WaitsFor(s1, m2)

\* ---- C9 --------------------------------------------------------------------------
\* C9: dropping a subscription never panics.
C9_DropNeverPanics ==
    \A s \in Subs : outcome[s].result # "drop_panic"

\* ---- C10 -------------------------------------------------------------------------
\* C10: when observe_events returns an error (the call yields neither a
\* subscription nor a panic, so no thread moves), the engine's enabled kinds,
\* its log level and its observed properties are those from before the call.
C10_ErrorRollsBack ==
    [][ (observe_calls' = observe_calls + 1 /\ pc' = pc) =>
              /\ enabled' = enabled
              /\ log_level' = log_level
              /\ observed_props' = observed_props
      ]_vars


\* ---- C11 -------------------------------------------------------------------------
\* Slot s holds the only subscription observe_events has ever returned.
Lone(s) == Live(s) /\ subscriptions = 1

\* The engine has dropped no event.
NoOverflow == \A u \in DOMAIN log : log[u].route # "overflow"

\* Some template of slot s has this event id.
RegisteredKind(s, kind) ==
    \E i \in DOMAIN local_to_observe[s] : as_id(local_to_observe[s][i]) = kind

\* The batches of a subscription, one after the other.
RECURSIVE Concat(_)
Concat(batches) ==
    IF batches = <<>> THEN <<>> ELSE Head(batches) \o Concat(Tail(batches))

\* The uids of the events the engine has emitted with a kind slot s
\* registered, in the order of emission.
EmittedFor(s) ==
    LET Wanted(u) == RegisteredKind(s, log[u].kind)
    IN SelectSeq([u \in DOMAIN log |-> u], Wanted)

\* The uids of the events returned to slot s, batch after batch, followed by
\* those of the batch it is building and of the events of its kinds that
\* wait in the engine's queue.
DeliveredOrPending(s) ==
    LET Wanted(raw) == RegisteredKind(s, raw.kind)
        evs == Concat(returned[s]) \o ret_events[s] \o SelectSeq(queue, Wanted)
    IN [i \in DOMAIN evs |-> evs[i].uid]

\* Every event returned to slot s is the raw event of its uid.
ReturnedAsEmitted(s) ==
    \A e \in ReturnedTo(s) : e.kind = log[e.uid].kind /\ e.name = log[e.uid].name

\* C11 as stated: for a lone subscription and no overflow, the batches hold,
\* in emission order and each once, exactly the emitted events of the kinds
\* it registered, and, as in the scenario (FileLoaded and Idle returned as
\* [FileLoaded] then [Idle]), every such event comes in a batch of its own.
C11_OneBatchPerEvent ==
    \A s \in Subs :
        (Lone(s) /\ NoOverflow) =>
            /\ DeliveredOrPending(s) = EmittedFor(s)
            /\ ReturnedAsEmitted(s)
            /\ \A b \in DOMAIN returned[s] : Len(returned[s][b]) = 1

\* C11 as amended: for a lone subscription and no overflow, the batches
\* returned so far, followed by the batch being built and the events of its
\* kinds still in the engine's queue, are in emission order and each once
\* exactly the emitted events of the kinds it registered; events of other
\* kinds are never delivered.  How the events fall into batches is not fixed:
\* two events come as one batch when the second is emitted before the pass
\* that polled the first has ended.
C11_LoneGetsItsKinds ==
    \A s \in Subs :
        (Lone(s) /\ NoOverflow) =>
            /\ DeliveredOrPending(s) = EmittedFor(s)
            /\ ReturnedAsEmitted(s)

\* A lone subscription whose drain has thrown away an event of a kind it did
\* not register and that has been returned an event of a kind it registered.
C11_Witness ==
    \E s \in Subs :
        /\ Lone(s) /\ NoOverflow
        /\ Len(log) = MaxEvents
        /\ \E u \in DOMAIN log : log[u].route = "discard"
        /\ \E e \in ReturnedTo(s) : log[e.uid].route = "direct"

\* ---- C12 -------------------------------------------------------------------------
\* Some event that matches a template of slot s sits in the engine's queue or
\* in the shared queue.
PendingFor(s) ==
    \E i \in DOMAIN local_to_observe[s] :
        \/ \E j \in DOMAIN queue : compare_ev(local_to_observe[s][i], queue[j])
        \/ \E j \in DOMAIN ev_observed :
              compare_ev(local_to_observe[s][i], ev_observed[j])

\* No notification is on its way: the engine's callback has run and no other
\* thread is inside next() or drop, where a notify_all could still come from.
NoNotificationComing(s) ==
    /\ ~wake_pending
    /\ \A t \in Subs \ {s} : pc[t] \in {"idle", "ready", "panicked", "nx_waiting"}

\* C12 (no lost wake-up): no subscriber is blocked in wait while an event that
\* matches its templates sits in the engine's queue or in the shared queue and
\* no further notification is coming.
C12_NoLostWakeup ==
    \A s \in Subs :
        ~(pc[s] = "nx_waiting" /\ PendingFor(s) /\ NoNotificationComing(s))

\* ---- C13 -------------------------------------------------------------------------
\* C13: no subscription is ever returned a PropertyChange for a property name
\* none of its templates asks for.
C13_OnlyOwnProperties ==
    \A s \in Subs : \A e \in ReturnedTo(s) :
        e.kind = "PropertyChange" => ObservesProperty(s, e.name)

\* ---- C14 -------------------------------------------------------------------------
\* C14: no two properties that are currently observed share an observation
\* id, neither in the engine nor in the registry of names and ids.
C14_UniqueObservationIds ==
    /\ \A p, q \in observed_props : p[1] = q[1] => p[2] = q[2]
    /\ \A n, m \in DOMAIN ev_to_observe_properties :
          n # m => ev_to_observe_properties[n] # ev_to_observe_properties[m]

\* ---- C17 -------------------------------------------------------------------------
\* C17 (arrival order): within every batch next() has returned, the events
\* stand in the order in which they were polled from the engine, which is the
\* order of their uids.
C17_ArrivalOrder ==
    \A s \in Subs : \A b \in DOMAIN returned[s] :
        \A i, j \in DOMAIN returned[s][b] :
            i < j => returned[s][b][i].uid < returned[s][b][j].uid

\* ---- C18 -------------------------------------------------------------------------
\* No entry of the shared queue matches a template of slot s.
NothingQueuedFor(s) ==
    \A i \in DOMAIN local_to_observe[s] : \A j \in DOMAIN ev_observed :
        ~compare_ev(local_to_observe[s][i], ev_observed[j])

\* C18: a subscriber that is about to choose between draining and claiming
\* (it holds the lock of the shared queue) and for which the shared queue
\* holds no matching entry takes the drain branch, also when the shared queue
\* holds entries of other subscribers.
C18_DrainsWhenNothingQueued ==
    \A s \in Subs :
        (pc[s] = "nx_branch" /\ NothingQueuedFor(s)) => must_drain(s)

\* ---- C19 -------------------------------------------------------------------------
\* No thread is inside a drain pass or a disposal.
NoDrainOrDisposal == \A s \in Subs : pc[s] \notin {"nx_poll", "dr_observed"}

\* C19: whenever no drain or disposal is in progress, every entry of the
\* shared queue matches a template (same kind and, for PropertyChange, same
\* property name) of some live subscription.
C19_QueuedEntriesHaveClaimant ==
    NoDrainOrDisposal =>
        \A j \in DOMAIN ev_observed :
            \E s \in Subs :
                /\ Live(s)
                /\ \E i \in DOMAIN local_to_observe[s] :
                      compare_ev(local_to_observe[s][i], ev_observed[j])

\* ---- C20 -------------------------------------------------------------------------
\* While slot s is inside the poll loop no other thread is inside it, at the
\* branch of line 435 (from where a claim starts) or inside a disposal.
DrainExclusive ==
    \A s \in Subs :
        pc[s] = "nx_poll" =>
            /\ lock["observed"] = s /\ lock["to_observe"] = s
            /\ \A t \in Subs \ {s} : pc[t] \notin {"nx_poll", "nx_branch", "dr_observed"}

\* While slot s is inside the poll loop the shared queue changes only by that
\* loop pushing the event it has just polled.
DrainOwnsQueue ==
    \A s \in Subs :
        (pc[s] = "nx_poll" /\ ev_observed' # ev_observed) =>
            /\ queue # <<>>
            /\ queue' = Tail(queue)
            /\ ev_observed' = Append(ev_observed, from_raw(queue[1]))
            /\ pc' = pc

\* C20: at most one drain pass runs at a time: no two threads are inside the
\* poll loop together, and no disposal and no claim modifies the shared queue
\* while a drain pass is polling.
C20_OneDrainAtATime == []DrainExclusive /\ [][DrainOwnsQueue]_vars

\* A drain pass has put an event in the shared queue and is still polling,
\* while another thread, woken by the engine's callback, wants the lock of
\* the shared queue.
C20_Witness ==
    \E s, t \in Subs :
        /\ s # t
        /\ pc[s] = "nx_poll"
        /\ ev_observed # <<>>
        /\ pc[t] = "nx_relock"

\* ---- C15 -------------------------------------------------------------------------
\* The drain pass of slot s is over and its polls are still on record.
PassOver(s) == pc[s] # "nx_poll" /\ polls[s] # <<>>

\* C15: a drain pass stops only on a poll that returned QueueOverflow or on
\* the second of two consecutive polls that returned None; a None that was
\* followed by an event does not count.
C15_StopsOnTwoNoneOrOverflow ==
    \A s \in Subs :
        PassOver(s) =>
            LET n == Len(polls[s]) IN
            \/ polls[s][n] = "QueueOverflow"
            \/ n >= 2 /\ polls[s][n] = "None" /\ polls[s][n - 1] = "None"

\* ---- C16 -------------------------------------------------------------------------
\* C16: the poll of a drain pass that returns QueueOverflow is the last poll
\* of the pass and raises nothing: the thread leaves the poll loop and
\* releases its locks, the batch collected so far is returned when it holds
\* something (otherwise next() goes round its loop), and the shared queue
\* keeps what the pass put there.
C16_OverflowEndsPass ==
    [][ \A s \in Subs :
          (pc[s] = "nx_poll" /\ polls'[s] = Append(polls[s], "QueueOverflow")) =>
              /\ lock'["observed"] # s /\ lock'["to_observe"] # s
              /\ ev_observed' = ev_observed
              /\ outcome' = outcome
              /\ IF ret_events[s] # <<>>
                    THEN /\ pc'[s] = "ready"
                         /\ returned'[s] = Append(returned[s], ret_events[s])
                    ELSE /\ pc'[s] = "nx_observed"
                         /\ returned'[s] = returned[s]
      ]_vars

\* A pass polled an event, kept it for its caller, then polled QueueOverflow
\* and returned the event.
C16_Witness ==
    \E s \in Subs :
        /\ pc[s] = "ready"
        /\ Len(polls[s]) >= 2
        /\ polls[s][1] = "event"
        /\ polls[s][Len(polls[s])] = "QueueOverflow"
        /\ returned[s] # <<>>

\* ---- C21 -------------------------------------------------------------------------
\* Some template of slot t matches the template or event e (same kind and,
\* for PropertyChange, same property name).
Holds(t, e) ==
    \E i \in DOMAIN local_to_observe[t] : compare_ev(local_to_observe[t][i], e)

\* The entries of a registry or queue that belong to slot t, in order.
EntriesOf(t, vec) ==
    LET Mine(e) == Holds(t, e) IN SelectSeq(vec, Mine)

\* C21: the step that completes the drop of one subscription (normally or by
\* a panic) leaves every other live subscription untouched: its templates in
\* the registry, the ids of its property names, its entries of the shared
\* queue, the enablement of its kinds, the log level and the engine's
\* observations of its properties are the same after the step as before it.
C21_DropLeavesOthersUntouched ==
    [][ \A s \in Subs :
          (pc[s] = "dr_observed" /\ pc'[s] # "dr_observed") =>
              \A t \in Subs \ {s} :
                  Live(t) =>
                      /\ EntriesOf(t, ev_to_observe') = EntriesOf(t, ev_to_observe)
                      /\ EntriesOf(t, ev_observed') = EntriesOf(t, ev_observed)
                      /\ \A name \in PropNames :
                            ObservesProperty(t, name) =>
                                /\ name \in DOMAIN ev_to_observe_properties'
                                      <=> name \in DOMAIN ev_to_observe_properties
                                /\ name \in DOMAIN ev_to_observe_properties =>
                                      ev_to_observe_properties'[name]
                                          = ev_to_observe_properties[name]
                                /\ {p \in observed_props' : p[2] = name}
                                      = {p \in observed_props : p[2] = name}
                      /\ \A i \in DOMAIN local_to_observe[t] :
                            enabled'[as_id(local_to_observe[t][i])]
                                = enabled[as_id(local_to_observe[t][i])]
                      /\ log_level' = log_level
      ]_vars

====
